---- MODULE Spec2Model ----
(***************************************************************************)
(* Model of lute/models/language.py: the Language entity, its word-char    *)
(* regex conversion, the yaml loader, the predefined-language listing and  *)
(* the parser dispatch.                                                    *)
(*                                                                         *)
(* Python strings are sequences of Unicode code points.  A Python value is *)
(* a tagged record, so that str, bool, int and None can sit in one field.  *)
(***************************************************************************)
EXTENDS Integers, Sequences, FiniteSets, TLC

VARIABLES
    lang,       \* the Language instance in hand (its columns)
    file,       \* the yaml document from_yaml reads: a sequence of <<key, value>>
    demo,       \* the documents glob yields for demo/languages/*.yaml, in glob order
    pattern,    \* the string _get_python_regex_pattern is applied to
    last        \* the last call: its name, argument, outcome

vars == <<lang, file, demo, pattern, last>>

(***************************************************************************)
(* Bounds of the model.                                                    *)
(***************************************************************************)
MaxChunks == 4      \* a regex string is at most this many fragments
MaxCalls == 2       \* applications of the conversion that are counted
MaxDocLen == 2      \* entries of a yaml document
MaxFiles == 3       \* yaml files in demo/languages

(***************************************************************************)
(* Python values.                                                          *)
(***************************************************************************)
PyStr(s) == [t |-> "str", s |-> s, b |-> FALSE, n |-> 0]
PyBool(b) == [t |-> "bool", s |-> <<>>, b |-> b, n |-> 0]
PyInt(n) == [t |-> "int", s |-> <<>>, b |-> FALSE, n |-> n]
PyNone == [t |-> "none", s |-> <<>>, b |-> FALSE, n |-> 0]

isinstance_str(v) == v.t = "str"

\* str.lower() on one code point (the ASCII letters; no other code point
\* lowers to a letter of "true" or "false").
LowerChar(c) == IF c >= 65 /\ c <= 90 THEN c + 32 ELSE c

lower(s) == [i \in 1..Len(s) |-> LowerChar(s[i])]

(***************************************************************************)
(* _get_python_regex_pattern: re.sub(r'\\x{([0-9A-Fa-f]+)}', convert_match) *)
(***************************************************************************)
\* The character class without its lower-case letters: [0-9A-F].
IsHexDigitUpperOnly(c) == (c >= 48 /\ c <= 57) \/ (c >= 65 /\ c <= 70)

\* [0-9A-Fa-f]
IsHexDigit(c) ==
    \/ c >= 48 /\ c <= 57
    \/ c >= 65 /\ c <= 70
    \/ c >= 97 /\ c <= 102

\* The greedy run [0-9A-Fa-f]+ from index j: the first index after it.
RECURSIVE HexRunEnd(_, _)
HexRunEnd(s, j) ==
    IF j <= Len(s) /\ IsHexDigit(s[j]) THEN HexRunEnd(s, j + 1) ELSE j

\* The regex tried at index i: the index of the closing brace of the match
\* that starts at i, or 0 when none starts there.
MatchEnd(s, i) ==
    IF /\ i + 4 <= Len(s)
       /\ s[i] = 92 /\ s[i + 1] = 120 /\ s[i + 2] = 123
    THEN LET j == HexRunEnd(s, i + 3)
         IN  IF j > i + 3 /\ j <= Len(s) /\ s[j] = 125 THEN j ELSE 0
    ELSE 0

\* convert_match: backslash-u followed by group(1).
convert_match(hex_value) == <<92, 117>> \o hex_value

\* A substitution that stops after its first match (count=1).
RECURSIVE re_sub_first_only(_, _)
re_sub_first_only(s, i) ==
    IF i > Len(s) THEN <<>>
    ELSE LET j == MatchEnd(s, i)
         IN  IF j > 0
             THEN convert_match(SubSeq(s, i + 3, j - 1))
                  \o SubSeq(s, j + 1, Len(s))
             ELSE <<s[i]>> \o re_sub_first_only(s, i + 1)

\* re.sub scanning s from index i: leftmost matches, not overlapping.
RECURSIVE re_sub(_, _)
re_sub(s, i) ==
    IF i > Len(s) THEN <<>>
    ELSE LET j == MatchEnd(s, i)
         IN  IF j > 0
             THEN convert_match(SubSeq(s, i + 3, j - 1)) \o re_sub(s, j + 1)
             ELSE <<s[i]>> \o re_sub(s, i + 1)

\* The method on a Python value: re.sub raises TypeError on a non-string.
_get_python_regex_pattern(v) ==
    IF isinstance_str(v)
    THEN [raised |-> FALSE, ret |-> PyStr(re_sub(v.s, 1))]
    ELSE [raised |-> TRUE, ret |-> PyNone]

(***************************************************************************)
(* The regex strings the conversion is tried on: concatenations of a few    *)
(* fragments (backslash, x, braces, hex digits, a complete escape).         *)
(***************************************************************************)
Chunks ==
    { <<92>>, <<120>>, <<123>>, <<125>>, <<52>>, <<117>>,
      <<92, 120, 123>>, <<92, 120, 123, 97, 70, 125>> }

RECURSIVE Concats(_)
Concats(n) ==
    IF n = 0 THEN {<<>>}
    ELSE LET shorter == Concats(n - 1)
         IN  shorter \cup {a \o c : a \in shorter, c \in Chunks}

\* \x{0600}-\x{06FF}\x{FE70}-\x{FEFC}
ArabicLegacy ==
    <<92, 120, 123, 48, 54, 48, 48, 125, 45, 92, 120, 123, 48, 54, 70, 70, 125,
      92, 120, 123, 70, 69, 55, 48, 125, 45, 92, 120, 123, 70, 69, 70, 67, 125>>

Patterns == Concats(MaxChunks) \cup {ArabicLegacy}

InitNormalize ==
    /\ pattern \in {PyStr(s) : s \in Patterns}
    /\ last = [op |-> "none", calls |-> 0]
    /\ lang = PyNone
    /\ file = <<>>
    /\ demo = <<>>

\* One application; a further application takes the previous result.
Normalize ==
    /\ last.calls < MaxCalls
    /\ LET arg == IF last.calls = 0 THEN pattern ELSE last.ret
           r == _get_python_regex_pattern(arg)
       IN  last' = [op |-> "normalize", calls |-> last.calls + 1, arg |-> arg,
                    raised |-> r.raised, ret |-> r.ret]
    /\ UNCHANGED <<lang, file, demo, pattern>>

NextNormalize == Normalize

SpecNormalize == InitNormalize /\ [][NextNormalize]_vars

(***************************************************************************)
(* The Language entity.                                                     *)
(***************************************************************************)
\* An instance before __init__ has run: every mapped column reads None.
Columns ==
    [id |-> PyNone, name |-> PyNone, dict_1_uri |-> PyNone,
     dict_2_uri |-> PyNone, sentence_translate_uri |-> PyNone,
     character_substitutions |-> PyNone, regexp_split_sentences |-> PyNone,
     exceptions_split_sentences |-> PyNone, _word_characters |-> PyNone,
     remove_spaces |-> PyNone, split_each_char |-> PyNone,
     right_to_left |-> PyNone, show_romanization |-> PyNone,
     parser_type |-> PyNone]

\* A property that would hand out the stored column as it is.
word_characters_raw(self) ==
    [raised |-> FALSE, ret |-> self._word_characters]

\* The word_characters property: the stored column, converted.
word_characters(self) == _get_python_regex_pattern(self._word_characters)

\* The word_characters setter: the column takes the converted string; the
\* TypeError of a non-string leaves the instance as it was.
word_characters_setter(self, s) ==
    LET r == _get_python_regex_pattern(s)
    IN  IF r.raised
        THEN [raised |-> TRUE, self |-> self]
        ELSE [raised |-> FALSE,
              self |-> [self EXCEPT !._word_characters = r.ret]]

\* setattr(lang, method, val): word_characters is the property, every other
\* name a plain column.
setattr(self, method, val) ==
    IF method = "word_characters"
    THEN word_characters_setter(self, val)
    ELSE [raised |-> FALSE, self |-> [self EXCEPT ![method] = val]]

\* "´='|`='|’='|‘='|...=…|..=‥"
DefaultCharacterSubstitutions ==
    <<180, 61, 39, 124, 96, 61, 39, 124, 8217, 61, 39, 124, 8216, 61, 39, 124,
      46, 46, 46, 61, 8230, 124, 46, 46, 61, 8229>>

\* '.!?'
DefaultRegexpSplitSentences == <<46, 33, 63>>

\* 'Mr.|Mrs.|Dr.|[A-Z].|Vd.|Vds.'
DefaultExceptionsSplitSentences ==
    <<77, 114, 46, 124, 77, 114, 115, 46, 124, 68, 114, 46, 124,
      91, 65, 45, 90, 93, 46, 124, 86, 100, 46, 124, 86, 100, 115, 46>>

\* 'a-zA-ZÀ-ÖØ-öø-ȳáéíóúÁÉÍÓÚñÑ'
DefaultWordCharacters ==
    <<97, 45, 122, 65, 45, 90, 192, 45, 214, 216, 45, 246, 248, 45, 563,
      225, 233, 237, 243, 250, 193, 201, 205, 211, 218, 241, 209>>

\* 'spacedel'
Spacedel == <<115, 112, 97, 99, 101, 100, 101, 108>>

\* A constructor that would leave the boolean columns unset.
init_without_flags ==
    LET a == [Columns EXCEPT
                !.character_substitutions = PyStr(DefaultCharacterSubstitutions),
                !.regexp_split_sentences = PyStr(DefaultRegexpSplitSentences),
                !.exceptions_split_sentences =
                    PyStr(DefaultExceptionsSplitSentences)]
        b == word_characters_setter(a, PyStr(DefaultWordCharacters)).self
    IN  [b EXCEPT !.parser_type = PyStr(Spacedel)]

\* __init__: the defaults, word_characters through its setter.
__init__ ==
    LET a == [Columns EXCEPT
                !.character_substitutions = PyStr(DefaultCharacterSubstitutions),
                !.regexp_split_sentences = PyStr(DefaultRegexpSplitSentences),
                !.exceptions_split_sentences =
                    PyStr(DefaultExceptionsSplitSentences)]
        b == word_characters_setter(a, PyStr(DefaultWordCharacters)).self
    IN  [b EXCEPT
            !.remove_spaces = PyBool(FALSE),
            !.split_each_char = PyBool(FALSE),
            !.right_to_left = PyBool(FALSE),
            !.show_romanization = PyBool(FALSE),
            !.parser_type = PyStr(Spacedel)]

(***************************************************************************)
(* from_yaml.                                                               *)
(***************************************************************************)
\* A table whose dict_2 entry would target dict_1_uri.
mappings_dict_2_typo ==
    [name |-> "name",
     dict_1 |-> "dict_1_uri",
     dict_2 |-> "dict_1_uri",
     sentence_translation |-> "sentence_translate_uri",
     show_romanization |-> "show_romanization",
     right_to_left |-> "right_to_left",
     parser_type |-> "parser_type",
     character_substitutions |-> "character_substitutions",
     split_sentences |-> "regexp_split_sentences",
     split_sentence_exceptions |-> "exceptions_split_sentences",
     word_chars |-> "word_characters"]

\* The table from yaml key to attribute name.
mappings ==
    [name |-> "name",
     dict_1 |-> "dict_1_uri",
     dict_2 |-> "dict_2_uri",
     sentence_translation |-> "sentence_translate_uri",
     show_romanization |-> "show_romanization",
     right_to_left |-> "right_to_left",
     parser_type |-> "parser_type",
     character_substitutions |-> "character_substitutions",
     split_sentences |-> "regexp_split_sentences",
     split_sentence_exceptions |-> "exceptions_split_sentences",
     word_chars |-> "word_characters"]

\* A lookup that would fall back on the column named like the key.
mappings_get_same_name(key) ==
    IF key \in DOMAIN mappings THEN mappings[key]
    ELSE IF key \in DOMAIN Columns THEN key
    ELSE ""

\* mappings.get(key, '')
mappings_get(key) == IF key \in DOMAIN mappings THEN mappings[key] ELSE ""

\* d.keys() and d[key] of the parsed document, a sequence of <<key, value>>
\* in document order with no key twice.
Keys(d) == {d[i][1] : i \in 1..Len(d)}

Item(d, key) == d[CHOOSE i \in 1..Len(d) : d[i][1] = key][2]

\* 'true' and 'false'
TrueLiteral == <<116, 114, 117, 101>>

FalseLiteral == <<102, 97, 108, 115, 101>>

\* A coercion that would compare without lowering the string.
Coerced_case_sensitive(val) ==
    IF isinstance_str(val)
    THEN IF val.s = TrueLiteral THEN PyBool(TRUE)
         ELSE IF val.s = FalseLiteral THEN PyBool(FALSE)
         ELSE val
    ELSE val

\* The value load hands to setattr: a string that lowers to 'true' or
\* 'false' becomes the bool, anything else stays.
Coerced(val) ==
    IF isinstance_str(val)
    THEN LET temp == lower(val.s)
         IN  IF temp = TrueLiteral THEN PyBool(TRUE)
             ELSE IF temp = FalseLiteral THEN PyBool(FALSE)
             ELSE val
    ELSE val

\* load(key, method) on the instance under construction.  st carries the
\* instance, whether an exception is propagating, and the setattr calls
\* made so far as <<method, val>>.
load(st, d, key, method) ==
    IF key \in Keys(d)
    THEN LET val == Coerced(Item(d, key))
             r == setattr(st.lang, method, val)
         IN  [lang |-> r.self, raised |-> r.raised,
              calls |-> Append(st.calls, <<method, val>>)]
    ELSE st

\* for key in d.keys(): from entry i on; an exception ends the loop.
RECURSIVE LoadKeys(_, _, _)
LoadKeys(st, d, i) ==
    IF i > Len(d) \/ st.raised THEN st
    ELSE LET key == d[i][1]
             funcname == mappings_get(key)
         IN  LoadKeys(IF funcname # "" THEN load(st, d, key, funcname) ELSE st,
                      d, i + 1)

\* from_yaml on the parsed document d: a fresh instance, then the loop.
from_yaml(d) ==
    LoadKeys([lang |-> __init__, raised |-> FALSE, calls |-> <<>>], d, 1)

(***************************************************************************)
(* The yaml documents tried: scalars of each type under known and unknown   *)
(* keys.                                                                    *)
(***************************************************************************)
\* 'True', 'FALSE', '\x{4f}', and a bool, a number and null.
YamlValues ==
    { PyStr(<<84, 114, 117, 101>>), PyStr(<<70, 65, 76, 83, 69>>),
      PyStr(<<92, 120, 123, 52, 102, 125>>),
      PyBool(TRUE), PyInt(7), PyNone }

UnknownKeys == {"remove_spaces", "future_key"}

YamlKeys == DOMAIN mappings \cup UnknownKeys

\* The documents of at most n entries over the given keys and values.
DocsOver(keys, values, n) ==
    {d \in UNION {[1..k -> keys \X values] : k \in 0..n} :
        \A i, j \in 1..Len(d) : i # j => d[i][1] # d[j][1]}

(***************************************************************************)
(* SpecLoader: from_yaml applied to each document.                          *)
(***************************************************************************)
InitLoader ==
    /\ file \in DocsOver(YamlKeys, YamlValues, MaxDocLen)
    /\ lang = __init__
    /\ last = [op |-> "new"]
    /\ demo = <<>>
    /\ pattern = PyNone

\* lang = Language.from_yaml(file): on an exception no instance is returned
\* and the one in hand stays.
FromYaml ==
    /\ LET r == from_yaml(file)
       IN  /\ lang' = IF r.raised THEN lang ELSE r.lang
           /\ last' = [op |-> "from_yaml", raised |-> r.raised,
                       setattrs |-> r.calls]
    /\ UNCHANGED <<file, demo, pattern>>

NextLoader == FromYaml

SpecLoader == InitLoader /\ [][NextLoader]_vars

(***************************************************************************)
(* The parser registry (lute.parse.registry) and the parsers behind it.     *)
(***************************************************************************)
\* 'japanese'
Japanese == <<106, 97, 112, 97, 110, 101, 115, 101>>

\* The registered parser-type tags.
RegisteredParsers == {Spacedel, Japanese}

\* get_parser(name): the registered implementation, or the unknown-parser
\* error; there is no default.
get_parser(name) ==
    IF isinstance_str(name) /\ name.s \in RegisteredParsers
    THEN [raised |-> FALSE, impl |-> name.s]
    ELSE [raised |-> TRUE, impl |-> <<>>]

\* What implementation impl returns for get_parsed_tokens(s, language) and
\* for get_lowercase(s): the segmentation itself is left uninterpreted.
ParserTokens(impl, s, language) ==
    [impl |-> impl, text |-> s, language |-> language]

ParserLowercase(impl, s) == [impl |-> impl, text |-> s]

NoResult == [impl |-> <<>>, text |-> ""]

\* A parser property that would fall back on the space-delimited parser.
parser_with_default(self) ==
    LET p == get_parser(self.parser_type)
    IN  IF p.raised THEN get_parser(PyStr(Spacedel)) ELSE p

\* The parser property.
parser(self) == get_parser(self.parser_type)

get_parsed_tokens(self, s) ==
    LET p == parser(self)
    IN  IF p.raised
        THEN [raised |-> TRUE, ret |-> NoResult]
        ELSE [raised |-> FALSE, ret |-> ParserTokens(p.impl, s, self)]

get_lowercase(self, s) ==
    LET p == parser(self)
    IN  IF p.raised
        THEN [raised |-> TRUE, ret |-> NoResult]
        ELSE [raised |-> FALSE, ret |-> ParserLowercase(p.impl, s)]

(***************************************************************************)
(* Spec: one Language instance through its life.                            *)
(***************************************************************************)
\* \x{\x{aF}}
NestedLegacy == <<92, 120, 123, 92, 120, 123, 97, 70, 125, 125>>

\* \u0600-\u06FF\uFE70-\uFEFC
ArabicPython ==
    <<92, 117, 48, 54, 48, 48, 45, 92, 117, 48, 54, 70, 70,
      92, 117, 70, 69, 55, 48, 45, 92, 117, 70, 69, 70, 67>>

\* Values written to word_characters.
WordCharInputs ==
    { PyStr(ArabicLegacy), PyStr(NestedLegacy), PyStr(DefaultWordCharacters),
      PyInt(7) }

\* LgRegexpWordCharacters as a row of the languages table may hold it.
StoredWordCharacters == {ArabicLegacy, NestedLegacy, ArabicPython}

Texts == {"Hello there.", "HI"}

LifecycleKeys == {"word_chars", "parser_type"}

\* The same scalars, and the tag of a registered parser.
LifecycleValues == YamlValues \cup {PyStr(Japanese)}

Init ==
    /\ lang = __init__
    /\ last = [op |-> "new"]
    /\ file \in DocsOver(LifecycleKeys, LifecycleValues, MaxDocLen)
    /\ demo = <<>>
    /\ pattern = PyNone

\* lang = Language()
Construct ==
    /\ lang' = __init__
    /\ last' = [op |-> "new"]
    /\ UNCHANGED <<file, demo, pattern>>

\* lang.word_characters = s
SetWordCharacters ==
    /\ \E s \in WordCharInputs :
          LET r == word_characters_setter(lang, s)
          IN  /\ lang' = r.self
              /\ last' = [op |-> "set_word_characters", arg |-> s,
                          raised |-> r.raised]
    /\ UNCHANGED <<file, demo, pattern>>

\* lang.word_characters
ReadWordCharacters ==
    /\ LET r == word_characters(lang)
       IN  last' = [op |-> "word_characters", raised |-> r.raised,
                    ret |-> r.ret]
    /\ UNCHANGED <<lang, file, demo, pattern>>

\* lang = Language.find(id): the row's columns are put on the instance
\* without __init__ or the setter running.
Find ==
    /\ \E s \in StoredWordCharacters :
          lang' = [lang EXCEPT !.id = PyInt(1),
                               !._word_characters = PyStr(s)]
    /\ last' = [op |-> "find"]
    /\ UNCHANGED <<file, demo, pattern>>

\* lang.get_parsed_tokens(s)
GetParsedTokens ==
    /\ \E s \in Texts :
          LET r == get_parsed_tokens(lang, s)
          IN  last' = [op |-> "get_parsed_tokens", arg |-> s, self |-> lang,
                       raised |-> r.raised, ret |-> r.ret]
    /\ UNCHANGED <<lang, file, demo, pattern>>

\* lang.get_lowercase(s)
GetLowercase ==
    /\ \E s \in Texts :
          LET r == get_lowercase(lang, s)
          IN  last' = [op |-> "get_lowercase", arg |-> s, self |-> lang,
                       raised |-> r.raised, ret |-> r.ret]
    /\ UNCHANGED <<lang, file, demo, pattern>>

Next ==
    \/ Construct
    \/ SetWordCharacters
    \/ ReadWordCharacters
    \/ Find
    \/ FromYaml
    \/ GetParsedTokens
    \/ GetLowercase

Spec == Init /\ [][Next]_vars

(***************************************************************************)
(* get_predefined.                                                          *)
(***************************************************************************)
\* a < b on two strings: code point by code point, a proper prefix first.
RECURSIVE StrLt(_, _)
StrLt(a, b) ==
    IF b = <<>> THEN FALSE
    ELSE IF a = <<>> THEN TRUE
    ELSE IF a[1] # b[1] THEN a[1] < b[1]
    ELSE StrLt(Tail(a), Tail(b))

\* bool and int compare as numbers.
IsNumber(v) == v.t \in {"bool", "int"}

Number(v) == IF v.t = "bool" THEN (IF v.b THEN 1 ELSE 0) ELSE v.n

\* a < b on two Python values: TypeError unless both are strings or both
\* are numbers.
py_lt(a, b) ==
    IF isinstance_str(a) /\ isinstance_str(b)
    THEN [raised |-> FALSE, lt |-> StrLt(a.s, b.s)]
    ELSE IF IsNumber(a) /\ IsNumber(b)
    THEN [raised |-> FALSE, lt |-> Number(a) < Number(b)]
    ELSE [raised |-> TRUE, lt |-> FALSE]

\* x put into the sorted list done, after every element not greater than it
\* (the sort is stable); a comparison that raises ends the sort.
RECURSIVE Insert(_, _, _)
Insert(done, x, j) ==
    IF j = 0 THEN [raised |-> FALSE, ret |-> <<x>> \o done]
    ELSE LET c == py_lt(x.name, done[j].name)
         IN  IF c.raised THEN [raised |-> TRUE, ret |-> done]
             ELSE IF c.lt THEN Insert(done, x, j - 1)
             ELSE [raised |-> FALSE,
                   ret |-> SubSeq(done, 1, j) \o <<x>>
                           \o SubSeq(done, j + 1, Len(done))]

\* ret.sort(key=lambda x: x.name): no comparison for fewer than two items.
RECURSIVE SortFrom(_, _, _)
SortFrom(done, ret, i) ==
    IF i > Len(ret) THEN [raised |-> FALSE, ret |-> done]
    ELSE LET r == Insert(done, ret[i], Len(done))
         IN  IF r.raised THEN r ELSE SortFrom(r.ret, ret, i + 1)

sort_by_name(ret) == SortFrom(<<>>, ret, 1)

\* [Language.from_yaml(f) for f in glob.glob(demoglob)]: the first document
\* that raises ends the comprehension.
RECURSIVE LoadAll(_, _)
LoadAll(docs, i) ==
    IF i > Len(docs) THEN [raised |-> FALSE, ret |-> <<>>]
    ELSE LET r == from_yaml(docs[i])
         IN  IF r.raised THEN [raised |-> TRUE, ret |-> <<>>]
             ELSE LET rest == LoadAll(docs, i + 1)
                  IN  [raised |-> rest.raised,
                       ret |-> IF rest.raised THEN <<>>
                               ELSE <<r.lang>> \o rest.ret]

get_predefined(docs) ==
    LET loaded == LoadAll(docs, 1)
    IN  IF loaded.raised THEN [raised |-> TRUE, ret |-> <<>>]
        ELSE LET sorted == sort_by_name(loaded.ret)
             IN  IF sorted.raised THEN [raised |-> TRUE, ret |-> <<>>]
                 ELSE sorted

\* 'English', 'French', 'arabic', 'True', 'https://fr'
English == <<69, 110, 103, 108, 105, 115, 104>>

French == <<70, 114, 101, 110, 99, 104>>

ArabicLower == <<97, 114, 97, 98, 105, 99>>

DictUri == <<104, 116, 116, 112, 115, 58, 47, 47, 102, 114>>

\* The yaml files demo/languages may hold.
CatalogDocs ==
    { << <<"name", PyStr(English)>> >>,
      << <<"name", PyStr(French)>> >>,
      << <<"name", PyStr(French)>>, <<"dict_1", PyStr(DictUri)>> >>,
      << <<"name", PyStr(ArabicLower)>> >>,
      << <<"dict_1", PyStr(DictUri)>> >>,
      << <<"name", PyStr(<<84, 114, 117, 101>>)>> >>,
      << <<"name", PyInt(7)>> >>,
      << <<"word_chars", PyInt(7)>> >> }

InitCatalog ==
    /\ demo \in UNION {[1..k -> CatalogDocs] : k \in 0..MaxFiles}
    /\ lang = __init__
    /\ last = [op |-> "new"]
    /\ file = <<>>
    /\ pattern = PyNone

\* Language.get_predefined()
GetPredefined ==
    /\ LET r == get_predefined(demo)
       IN  last' = [op |-> "get_predefined", raised |-> r.raised,
                    ret |-> r.ret]
    /\ UNCHANGED <<lang, file, demo, pattern>>

NextCatalog == GetPredefined

SpecCatalog == InitCatalog /\ [][NextCatalog]_vars

(***************************************************************************)
(* Properties of the conversion (SpecNormalize).                            *)
(***************************************************************************)
\* s[i..j] is one legacy escape: backslash, x, {, one or more hex digits, }.
IsLegacyEscape(s, i, j) ==
    /\ i + 4 <= j /\ j <= Len(s)
    /\ s[i] = 92 /\ s[i + 1] = 120 /\ s[i + 2] = 123 /\ s[j] = 125
    /\ \A k \in (i + 3)..(j - 1) :
          s[k] \in (48..57) \cup (65..70) \cup (97..102)

Occurrences(s) ==
    {o \in (1..Len(s)) \X (1..Len(s)) : IsLegacyEscape(s, o[1], o[2])}

HasLegacyEscape(s) == Occurrences(s) # {}

\* What position p of s contributes to the converted string, occ being the
\* escapes of s: the x of an escape becomes u, its two braces vanish,
\* anything else is copied.
Piece(s, occ, p) ==
    IF \E o \in occ : p = o[1] + 1 THEN <<117>>
    ELSE IF \E o \in occ : p = o[1] + 2 \/ p = o[2] THEN <<>>
    ELSE <<s[p]>>

RECURSIVE PiecesOf(_, _, _)
PiecesOf(s, occ, p) ==
    IF p > Len(s) THEN <<>> ELSE Piece(s, occ, p) \o PiecesOf(s, occ, p + 1)

PiecesFrom(s, p) == PiecesOf(s, Occurrences(s), p)

\* C2: the conversion is idempotent: applied to its own result it returns
\* that result unchanged.
C2_Idempotent ==
    last.calls >= 2 => ~last.raised /\ last.ret = last.arg

\* A nested escape has been converted twice.
C2_Witness ==
    /\ last.calls = 2
    /\ pattern = PyStr(NestedLegacy)
    /\ last.ret # pattern

\* C4: the conversion replaces each backslash-x-{hex}-} by backslash-u-hex,
\* copies every other character in order, leaves a string without an escape
\* unchanged, never raises on a string, and maps the legacy Arabic range to
\* \u0600-\u06FF\uFE70-\uFEFC.
C4_Replaces ==
    last.calls = 1 =>
        /\ ~last.raised
        /\ last.ret = PyStr(PiecesFrom(pattern.s, 1))
        /\ (~HasLegacyEscape(pattern.s) => last.ret = pattern)
        /\ (pattern.s = ArabicLegacy => last.ret.s = ArabicPython)

\* The Arabic range has been converted.
C4_Witness ==
    /\ last.calls = 1
    /\ pattern.s = ArabicLegacy
    /\ last.ret.s = ArabicPython

(***************************************************************************)
(* Properties of the Language instance (Spec).                              *)
(***************************************************************************)
\* C3: reading word_characters returns the conversion of the stored column
\* and holds no legacy escape, however the column got its value; after a
\* write of a string s the column itself holds the conversion of s.
C3_ReadIsNormalized ==
    /\ lang._word_characters.t = "str"
    /\ ~HasLegacyEscape(word_characters(lang).ret.s)
    /\ last.op = "word_characters" =>
          /\ ~last.raised
          /\ last.ret = PyStr(PiecesFrom(lang._word_characters.s, 1))
          /\ ~HasLegacyEscape(last.ret.s)
    /\ (last.op = "set_word_characters" /\ last.arg.t = "str") =>
          /\ ~last.raised
          /\ lang._word_characters = PyStr(PiecesFrom(last.arg.s, 1))

\* The store left the legacy Arabic range in the column and it was read.
C3_Witness ==
    /\ last.op = "word_characters"
    /\ lang._word_characters.s = ArabicLegacy
    /\ last.ret.s = ArabicPython

\* C5: a freshly constructed instance holds exactly the literal defaults.
C5_Defaults ==
    last.op = "new" =>
        /\ lang.character_substitutions =
              PyStr(<<180, 61, 39, 124, 96, 61, 39, 124, 8217, 61, 39, 124,
                      8216, 61, 39, 124, 46, 46, 46, 61, 8230, 124,
                      46, 46, 61, 8229>>)
        /\ lang.regexp_split_sentences = PyStr(<<46, 33, 63>>)
        /\ lang.exceptions_split_sentences =
              PyStr(<<77, 114, 46, 124, 77, 114, 115, 46, 124, 68, 114, 46,
                      124, 91, 65, 45, 90, 93, 46, 124, 86, 100, 46, 124,
                      86, 100, 115, 46>>)
        /\ lang._word_characters =
              PyStr(<<97, 45, 122, 65, 45, 90, 192, 45, 214, 216, 45, 246,
                      248, 45, 563, 225, 233, 237, 243, 250, 193, 201, 205,
                      211, 218, 241, 209>>)
        /\ word_characters(lang) =
              [raised |-> FALSE, ret |-> lang._word_characters]
        /\ lang.remove_spaces = PyBool(FALSE)
        /\ lang.split_each_char = PyBool(FALSE)
        /\ lang.right_to_left = PyBool(FALSE)
        /\ lang.show_romanization = PyBool(FALSE)
        /\ lang.parser_type = PyStr(<<115, 112, 97, 99, 101, 100, 101, 108>>)

\* A freshly constructed instance, its word characters read.
C5_Witness ==
    /\ last.op = "new"
    /\ lang.parser_type.s = Spacedel
    /\ lang.id = PyNone
    /\ word_characters(lang).ret.s = DefaultWordCharacters

IsRegistered(v) == v.t = "str" /\ v.s \in RegisteredParsers

\* C10: get_parsed_tokens and get_lowercase resolve the instance's current
\* parser_type on every call: an unregistered type fails and yields nothing,
\* a registered one returns what its implementation returns for the same
\* text and instance, and the instance is left as it was.
C10_Dispatch ==
    /\ last.op = "get_parsed_tokens" =>
          /\ lang = last.self
          /\ IF IsRegistered(lang.parser_type)
             THEN /\ ~last.raised
                  /\ last.ret = ParserTokens(lang.parser_type.s, last.arg, lang)
             ELSE last.raised /\ last.ret = NoResult
    /\ last.op = "get_lowercase" =>
          /\ lang = last.self
          /\ IF IsRegistered(lang.parser_type)
             THEN /\ ~last.raised
                  /\ last.ret = ParserLowercase(lang.parser_type.s, last.arg)
             ELSE last.raised /\ last.ret = NoResult

\* A loaded instance whose parser_type is no registered tag was asked for
\* tokens.
C10_Witness ==
    /\ last.op = "get_parsed_tokens"
    /\ lang.parser_type = PyBool(TRUE)
    /\ last.raised

(***************************************************************************)
(* Properties of the loader (SpecLoader).                                   *)
(***************************************************************************)
\* s equals the literal, ignoring the case of ASCII letters.
EqualsIgnoringCase(s, lowerLit, upperLit) ==
    /\ Len(s) = Len(lowerLit)
    /\ \A i \in 1..Len(s) : s[i] = lowerLit[i] \/ s[i] = upperLit[i]

\* The value the coercion rule prescribes for a document value.
Prescribed(v) ==
    IF v.t = "str" /\ EqualsIgnoringCase(v.s, <<116, 114, 117, 101>>,
                                          <<84, 82, 85, 69>>)
    THEN PyBool(TRUE)
    ELSE IF v.t = "str" /\ EqualsIgnoringCase(v.s, <<102, 97, 108, 115, 101>>,
                                               <<70, 65, 76, 83, 69>>)
    THEN PyBool(FALSE)
    ELSE v

\* The closed table of the loader: document key to the field it sets.
Table ==
    [name |-> "name",
     dict_1 |-> "dict_1_uri",
     dict_2 |-> "dict_2_uri",
     sentence_translation |-> "sentence_translate_uri",
     show_romanization |-> "show_romanization",
     right_to_left |-> "right_to_left",
     parser_type |-> "parser_type",
     character_substitutions |-> "character_substitutions",
     split_sentences |-> "regexp_split_sentences",
     split_sentence_exceptions |-> "exceptions_split_sentences",
     word_chars |-> "word_characters"]

\* What a reader sees in the field a table entry targets.
Field(self, method) ==
    IF method = "word_characters" THEN word_characters(self).ret
    ELSE self[method]

\* The table keys of the document, in document order.
TableKeys(d) ==
    LET InTable(e) == e[1] \in DOMAIN Table
        kept == SelectSeq(d, InTable)
    IN  [i \in 1..Len(kept) |-> kept[i][1]]

\* C1: from_yaml never raises while assigning a recognized key.
C1_NeverRaises ==
    last.op = "from_yaml" => ~last.raised

\* C6 as stated: in the returned instance every table key of the document
\* has its field equal to the document's value after the true/false
\* coercion, and every absent table key has its field at the default.
C6_FieldsEqualDocument ==
    (last.op = "from_yaml" /\ ~last.raised) =>
        \A key \in DOMAIN Table :
            Field(lang, Table[key]) =
                IF key \in Keys(file) THEN Prescribed(Item(file, key))
                ELSE Field(__init__, Table[key])

\* C6 amended: as above, except that word_chars yields word_characters equal
\* to the conversion of the document's value.
C6_FieldsFollowDocument ==
    (last.op = "from_yaml" /\ ~last.raised) =>
        \A key \in DOMAIN Table :
            Field(lang, Table[key]) =
                IF key \notin Keys(file) THEN Field(__init__, Table[key])
                ELSE IF key = "word_chars"
                THEN PyStr(PiecesFrom(Prescribed(Item(file, key)).s, 1))
                ELSE Prescribed(Item(file, key))

\* A document with a legacy word_chars and the name 'True' was loaded.
C6_Witness ==
    /\ last.op = "from_yaml" /\ ~last.raised
    /\ file = << <<"word_chars", PyStr(<<92, 120, 123, 52, 102, 125>>)>>,
                 <<"name", PyStr(<<84, 114, 117, 101>>)>> >>
    /\ lang.name = PyBool(TRUE)
    /\ lang._word_characters = PyStr(<<92, 117, 52, 102>>)

\* C7: load hands setattr, for each table key of the document in turn, the
\* bool for a string that is "true" or "false" in any letter case and the
\* document's value unchanged otherwise; a plain column then holds it.
C7_Coercion ==
    last.op = "from_yaml" =>
        LET keys == TableKeys(file)
        IN  /\ Len(last.setattrs) <= Len(keys)
            /\ ~last.raised => Len(last.setattrs) = Len(keys)
            /\ \A i \in 1..Len(last.setattrs) :
                  /\ last.setattrs[i][1] = Table[keys[i]]
                  /\ last.setattrs[i][2] = Prescribed(Item(file, keys[i]))
            /\ ~last.raised =>
                  \A i \in 1..Len(keys) :
                      keys[i] # "word_chars" =>
                          lang[Table[keys[i]]] =
                              Prescribed(Item(file, keys[i]))

\* right_to_left: 'True' was loaded as the bool.
C7_Witness ==
    /\ last.op = "from_yaml" /\ ~last.raised
    /\ "right_to_left" \in Keys(file)
    /\ Item(file, "right_to_left") = PyStr(<<84, 114, 117, 101>>)
    /\ lang.right_to_left = PyBool(TRUE)

\* The column a table entry writes.
Column(method) ==
    IF method = "word_characters" THEN "_word_characters" ELSE method

\* The document without its keys that are not in the table.
WithoutUnknown(d) ==
    LET InTable(e) == e[1] \in DOMAIN Table
    IN  SelectSeq(d, InTable)

\* C8: keys outside the table neither raise nor change a field: the load
\* ends as the load of the document without them, every column no present
\* table key targets keeps its construction value, and so do remove_spaces,
\* split_each_char and id after every load.
C8_UnknownKeysIgnored ==
    last.op = "from_yaml" =>
        LET r == from_yaml(WithoutUnknown(file))
        IN  /\ last.raised = r.raised
            /\ ~last.raised => lang = r.lang
            /\ WithoutUnknown(file) = <<>> => ~last.raised /\ lang = __init__
            /\ ~last.raised =>
                  /\ \A col \in DOMAIN Columns :
                        (\A key \in Keys(file) \cap DOMAIN Table :
                            Column(Table[key]) # col)
                        => lang[col] = __init__[col]
                  /\ lang.remove_spaces = PyBool(FALSE)
                  /\ lang.split_each_char = PyBool(FALSE)
                  /\ lang.id = PyNone

\* A document with a name and the unknown key remove_spaces was loaded.
C8_Witness ==
    /\ last.op = "from_yaml" /\ ~last.raised
    /\ Keys(file) = {"remove_spaces", "name"}
    /\ Item(file, "remove_spaces") = PyBool(TRUE)
    /\ lang.remove_spaces = PyBool(FALSE)

(***************************************************************************)
(* Properties of the listing (SpecCatalog).                                 *)
(***************************************************************************)
\* a <= b as Python decides it: b < a is defined and false.
PyLe(a, b) == ~py_lt(b, a).raised /\ ~py_lt(b, a).lt

\* ret holds each instance as often as the documents yield it.
SameInstances(ret, docs) ==
    /\ Len(ret) = Len(docs)
    /\ \A i \in 1..Len(docs) :
          LET l == from_yaml(docs[i]).lang
          IN  Cardinality({j \in 1..Len(ret) : ret[j] = l}) =
              Cardinality({j \in 1..Len(docs) : from_yaml(docs[j]).lang = l})

\* C9: whenever every document found loads into an instance, get_predefined
\* returns one instance per document, ascending by name in code-point order
\* (the empty list when there is no document).
C9_SortedListing ==
    (/\ last.op = "get_predefined"
     /\ \A i \in 1..Len(demo) : ~from_yaml(demo[i]).raised) =>
        /\ ~last.raised
        /\ SameInstances(last.ret, demo)
        /\ \A i \in 1..(Len(last.ret) - 1) :
              PyLe(last.ret[i].name, last.ret[i + 1].name)

====
